---- MODULE Spec2Model ----
(***************************************************************************)
(* Model of the unik admission controller's validator package:             *)
(*   - UniqueList (validator/uniquelist.go): the registry of annotation    *)
(*     keys that must be unique per namespace or cluster wide;             *)
(*   - AdmitHandlerV1.Validate (validator/validation.go): the decision     *)
(*     procedure run for one AdmissionReview.                              *)
(* One Validate call is cut at its only blocking points, the calls of      *)
(* clientset.CoreV1().Services(ns).List.                                   *)
(***************************************************************************)
EXTENDS Integers, Sequences, FiniteSets, TLC

(***************************************************************************)
(* Bounds of the model.                                                    *)
(***************************************************************************)
\* largest number of Service objects present in the cluster
MaxServices == 2

\* const ClusterScope Namespace = "*"
ClusterScope == "*"

Namespaces == {"default", "other"}

\* the namespace/name pairs of the Services the cluster may hold: the
\* candidate's own, one of its namespace, one of its name elsewhere
ServiceIds == {<<"default", "svc-a">>, <<"default", "svc-b">>, <<"other", "svc-a">>}
Keys == {"ncp/snat_pool", "team"}
Values == {"pool-1", "pool-2"}

\* the namespace, name and annotation values used by admitted candidates
CandidateNamespaces == {"default"}
CandidateNames == {"svc-a"}
CandidateValues == {"pool-1"}

AllScopes == Namespaces \cup {ClusterScope}

\* map[string]string with keys among Keys
AnnotationMaps(vals) == UNION {[D -> vals] : D \in SUBSET Keys}

EmptyAnnotations == [key \in {} |-> "pool-1"]

\* corev1.Service, reduced to the ObjectMeta fields Validate reads
Service(nss, names, vals) ==
    [namespace : nss, name : names, annotations : AnnotationMaps(vals)]

\* corev1.Service{} : the value of svcToCheck before decoding
ZeroService == [namespace |-> "", name |-> "", annotations |-> EmptyAnnotations]

ExistingServices ==
    {svc \in Service(Namespaces, {id[2] : id \in ServiceIds}, Values) :
        <<svc.namespace, svc.name>> \in ServiceIds}

SameIdentity(a, b) == a.namespace = b.namespace /\ a.name = b.name

\* the populations of at most n Services, no two with the same namespace/name
RECURSIVE Populations(_)
Populations(n) ==
    IF n = 0 THEN {{}}
    ELSE LET smaller == Populations(n - 1)
         IN  smaller \cup
             {p \cup {s} : <<p, s>> \in
                 {ps \in smaller \X ExistingServices :
                     \A e \in ps[1] : ~SameIdentity(e, ps[2])}}

(***************************************************************************)
(* UniqueList: a pointer to a struct holding map[Namespace][]Annotation.   *)
(* The key lists are read only through slices.Contains and range, so a     *)
(* list is modelled by the set of its elements.                            *)
(***************************************************************************)
EmptyMap == [scope \in {} |-> {}]

NilList == [nil |-> TRUE, Annotations |-> EmptyMap]

UniqueListOf(m) == [nil |-> FALSE, Annotations |-> m]

Registries == UNION {[D -> SUBSET Keys] : D \in SUBSET AllScopes}

\* only a scope with a key counts as registered
HasNamespaceWithKeys(s, namespace) ==
    /\ namespace \in DOMAIN s.Annotations
    /\ s.Annotations[namespace] # {}

HasNamespace(s, namespace) == namespace \in DOMAIN s.Annotations

\* the key looked up in every scope
ProtectedInNamespaceAnyScope(s, namespace, annotation) ==
    \E sc \in DOMAIN s.Annotations : annotation \in s.Annotations[sc]

ProtectedInNamespace(s, namespace, annotation) ==
    IF ~HasNamespace(s, namespace) THEN FALSE
    ELSE annotation \in s.Annotations[namespace]

\* the key looked up in the namespaces instead of the cluster scope
ProtectedInClusterElsewhere(s, annotation) ==
    \E sc \in DOMAIN s.Annotations \ {ClusterScope} :
        annotation \in s.Annotations[sc]

ProtectedInCluster(s, annotation) ==
    ProtectedInNamespace(s, ClusterScope, annotation)

ProtectedInAnyNamespace(s, annotation) ==
    \E namespace \in DOMAIN s.Annotations :
        /\ namespace # ClusterScope
        /\ annotation \in s.Annotations[namespace]

IsProtected(s, annotation) ==
    ProtectedInCluster(s, annotation) \/ ProtectedInAnyNamespace(s, annotation)

\* true as soon as the registry protects any annotation at all
HasProtectedAnnotationsAtAll(s, serviceAnnotations) ==
    \E namespace \in DOMAIN s.Annotations : s.Annotations[namespace] # {}

HasProtectedAnnotations(s, serviceAnnotations) ==
    \E annotation \in serviceAnnotations : IsProtected(s, annotation)

HasProtectedInNamespace(s, namespace, annotations) ==
    IF ~HasNamespace(s, namespace) THEN FALSE
    ELSE \E annotation \in DOMAIN annotations :
            annotation \in s.Annotations[namespace]

\* true only when every annotation of a namespace is protected in the cluster
HasDuplicateOfAll(s) ==
    \E namespace \in DOMAIN s.Annotations :
        /\ namespace # ClusterScope
        /\ \A a \in s.Annotations[namespace] : ProtectedInCluster(s, a)

HasDuplicate(s) ==
    \E namespace \in DOMAIN s.Annotations :
        /\ namespace # ClusterScope
        /\ \E a \in s.Annotations[namespace] : ProtectedInCluster(s, a)

\* the scopes Filter may add an entry for: append creates the entry of a
\* scope on the first protected annotation found for it
FilteredScopes(s, namespace, serviceAnnotations) ==
    {scope \in {namespace, ClusterScope} :
        \E annotation \in serviceAnnotations :
            ProtectedInNamespace(s, scope, annotation)}

\* the receiver itself, with every scope and every key it has
FilterNothing(s, namespace, serviceAnnotations) == s

Filter(s, namespace, serviceAnnotations) ==
    IF ~HasNamespace(s, namespace) /\ ~HasNamespace(s, ClusterScope)
    THEN NilList
    ELSE UniqueListOf(
            [scope \in FilteredScopes(s, namespace, serviceAnnotations) |->
                {annotation \in serviceAnnotations :
                    ProtectedInNamespace(s, scope, annotation)}])

\* the receiver left with what Filter kept
FilterReceiverInPlace(s, namespace, serviceAnnotations) ==
    IF Filter(s, namespace, serviceAnnotations).nil THEN s
    ELSE Filter(s, namespace, serviceAnnotations)

\* the receiver after Filter: the entries go into a map of their own
\* (filtered := &UniqueList{...}), s.Annotations is only read
FilterReceiver(s, namespace, serviceAnnotations) == s

\* maps.Keys(s.Annotations): the keys in an unspecified order
Scopes(s) == DOMAIN s.Annotations


(***************************************************************************)
(* The admission request.                                                  *)
(***************************************************************************)
\* the constant with the group of the apps API filled in
serviceRessourceInApps == [Group |-> "apps", Version |-> "v1", Resource |-> "services"]

\* var serviceRessource = metav1.GroupVersionResource{Version: "v1", Resource: "services"}
serviceRessource == [Group |-> "", Version |-> "v1", Resource |-> "services"]

\* a resource Validate does not support
appsServiceResource == [Group |-> "apps", Version |-> "v1", Resource |-> "services"]

Resources == {[Group |-> "", Version |-> "v1", Resource |-> "services"],
              appsServiceResource}

Candidates == Service(CandidateNamespaces, CandidateNames, CandidateValues)

\* ar.Request.Object.Raw: the bytes of the object under admission.  A well
\* formed document carries the metadata of a Service; a malformed one carries
\* the fields the decoder filled in before it gave up.
Encode(svc) ==
    [wellFormed |-> TRUE, namespace |-> svc.namespace, name |-> svc.name,
     annotations |-> svc.annotations]

Truncated(svc) ==
    [wellFormed |-> FALSE, namespace |-> svc.namespace, name |-> svc.name,
     annotations |-> svc.annotations]

RawObjects ==
    {Encode(svc) : svc \in Candidates}
        \cup {Truncated(svc) : svc \in Candidates \cup {ZeroService}}

\* deserializer.Decode(raw, nil, &svcToCheck): fills svcToCheck, reports err
Decode(raw) ==
    [obj |-> [namespace |-> raw.namespace, name |-> raw.name,
              annotations |-> raw.annotations],
     err |-> ~raw.wellFormed]

Requests == [Resource : Resources, Object : RawObjects]

NoRequest == [Resource |-> [Group |-> "", Version |-> "", Resource |-> ""],
              Object |-> Truncated(ZeroService)]

(***************************************************************************)
(* admissionv1.AdmissionResponse: Allowed, Warnings and Result.Message.    *)
(* The message is kept as the sequence of the pieces Sprintf joins.        *)
(***************************************************************************)
NoMessage == << >>

NewResponse == [Allowed |-> FALSE, Warnings |-> << >>, Message |-> NoMessage]

UnsupportedWarning == "unik: Request does not contain a supported service"

DuplicateWarning ==
    "unik: Configuration has annotations protected in cluster scope and in namespace scope"

\* the message with the name put before the namespace
DenyMessageNameFirst(svcInScope, annotationKey, annotationValue) ==
    <<"Service ", svcInScope.name, "/", svcInScope.namespace,
      " already has the same value for annotation \"", annotationKey,
      "\": ", annotationValue>>

DenyMessage(svcInScope, annotationKey, annotationValue) ==
    <<"Service ", svcInScope.namespace, "/", svcInScope.name,
      " already has the same value for annotation \"", annotationKey,
      "\": ", annotationValue>>

(***************************************************************************)
(* The lister: clientset.CoreV1().Services(ns).List.                       *)
(***************************************************************************)
\* the scope used as the namespace to list, Cluster scope included
ListNamespaceVerbatim(scope) == scope

\* ns := string(scope); if scope == ClusterScope { ns = "" }
ListNamespace(scope) == IF scope = ClusterScope THEN "" ELSE scope

\* the Items of a successful List: every Service of the namespace, every
\* Service of the cluster for the empty namespace
List(population, ns) ==
    {e \in population : ns = "" \/ e.namespace = ns}

\* A List call succeeds, or fails and hands back either a nil *ServiceList
\* (the fake clientset of the tests) or an empty one (the typed client
\* allocates the result before the request is sent).
ListOutcomes == {"ok", "error-nil", "error-empty"}

\* the pairs <<svcInScope, annotationKey>> at which the scan of lines 409-446
\* can stop: another Service that has the key with the candidate's value
Conflicts(items, svc) ==
    {c \in items \X DOMAIN svc.annotations :
        /\ ~(c[1].name = svc.name /\ c[1].namespace = svc.namespace)
        /\ c[2] \in DOMAIN c[1].annotations
        /\ c[1].annotations[c[2]] = svc.annotations[c[2]]}

(***************************************************************************)
(* State.                                                                  *)
(***************************************************************************)
VARIABLES
    unique,        \* h.unique, the registry
    services,      \* the Services present in the cluster
    pc,            \* position of the Validate call: idle, loop, listing, done, panic
    ar,            \* the AdmissionReview request under validation
    svcToCheck,    \* the decoded candidate
    response,      \* the AdmissionResponse being built
    logReason,     \* the "reason" field of the last admitted/denied log line
    toCheck,       \* the result of h.unique.Filter
    pending,       \* scopes of toCheck.Scopes() not iterated yet
    scope,         \* the scope of the current loop iteration
    listCalls,     \* the namespaces List was called with, in call order
    listFailed,    \* some List call of this Validate returned an error
    registryReads, \* number of calls of h.unique methods by this Validate
    previous,      \* history: request and decision of the call that ended last
    lock,          \* h.lock: 0 when free, else the ValidateBytes call holding it
    bytesPc,       \* position of each ValidateBytes call: idle, waiting, inside
    rwReaders,     \* the RWMutex of the registry: number of read locks held
    writerPc,      \* the writer of the registry: idle, waiting, locked, written
    writes,        \* number of mutations of the registry so far
    readerCall,    \* the UniqueList method a reader goroutine is inside
    readerOps,     \* the lock operations and map reads that call has left
    readerHeld,    \* number of read locks the reader goroutine holds
    query,         \* the UniqueList method called last, with its arguments
    answer,        \* what that call returned
    seen,          \* history: the registry states that existed during the call
    http           \* the HTTP exchange of the admission endpoint

\* the ValidateBytes calls in flight at most: one per request goroutine
Callers == {1, 2}

NoPrevious ==
    [set |-> FALSE, request |-> NoRequest, returned |-> FALSE,
     response |-> NewResponse, reason |-> "", listFailed |-> FALSE]

NoCall == [method |-> "", namespace |-> "", annotations |-> << >>]

NoQuery == [method |-> "", namespace |-> "", annotations |-> {}]

NoAnswer == [list |-> NilList, bool |-> FALSE]

vars == <<unique, services, pc, ar, svcToCheck, response, logReason, toCheck,
          pending, scope, listCalls, listFailed, registryReads,
          previous, lock, bytesPc, rwReaders, writerPc, writes, readerCall,
          readerOps, readerHeld, query, answer, seen, http>>

validateVars == <<pc, ar, svcToCheck, response, logReason, toCheck, pending,
                  scope, listCalls, listFailed, registryReads>>

bytesVars == <<lock, bytesPc>>

rwVars == <<rwReaders, writerPc, writes, readerCall, readerOps, readerHeld>>

queryVars == <<query, answer>>

outerVars == <<seen, http>>

\* no request on the connection
NoExchange ==
    [pc |-> "idle", hasBody |-> FALSE, contentType |-> "", readable |-> FALSE,
     content |-> [kind |-> "garbage", Request |-> NoRequest],
     status |-> 0, passed |-> FALSE]

\* the state outside a direct Validate call
aux == <<previous, bytesVars, rwVars, queryVars, outerVars>>

AuxInit ==
    /\ previous = NoPrevious
    /\ lock = 0
    /\ bytesPc = [r \in Callers |-> "idle"]
    /\ rwReaders = 0
    /\ writerPc = "idle"
    /\ writes = 0
    /\ readerCall = NoCall
    /\ readerOps = << >>
    /\ readerHeld = 0
    /\ query = NoQuery
    /\ answer = NoAnswer
    /\ seen = {}
    /\ http = NoExchange

config == <<unique, services>>

Init ==
    \* WithUniqueList is optional: without it h.unique stays nil
    /\ unique \in {UniqueListOf(m) : m \in Registries} \cup {NilList}
    /\ services \in Populations(MaxServices)
    /\ pc = "idle"
    /\ ar = NoRequest
    /\ svcToCheck = ZeroService
    /\ response = NewResponse
    /\ logReason = ""
    /\ toCheck = NilList
    /\ pending = {}
    /\ scope = ""
    /\ listCalls = << >>
    /\ listFailed = FALSE
    /\ registryReads = 0
    /\ AuxInit

\* the call ends: with its response (done) or by a run-time panic
Ends(how, resp, reason, reads) ==
    /\ pc' = how
    /\ response' = resp
    /\ logReason' = reason
    /\ registryReads' = reads

(***************************************************************************)
(* Validate, from its entry to the first iteration of the scope loop       *)
(* (lines 343-398).  development is the mode of h.logger: DPanic panics    *)
(* in development mode and only logs otherwise.                            *)
(***************************************************************************)
EnterValidate(request, development) ==
    /\ pc = "idle"
    /\ ar' = request
    /\ UNCHANGED <<services, scope, listCalls, listFailed>>
    /\ IF request.Resource # serviceRessource
       THEN /\ Ends("done", [NewResponse EXCEPT !.Allowed = TRUE,
                                !.Warnings = <<UnsupportedWarning>>], "", 0)
            /\ UNCHANGED <<unique, svcToCheck, toCheck, pending>>
       ELSE LET decoded == Decode(request.Object)
                svc == decoded.obj
                keys == DOMAIN svc.annotations
                warned == IF ~unique.nil /\ HasDuplicate(unique)
                          THEN [NewResponse EXCEPT !.Warnings = <<DuplicateWarning>>]
                          ELSE NewResponse
                filtered == Filter(unique, svc.namespace, keys)
            IN  IF decoded.err /\ development
                THEN /\ Ends("panic", NewResponse, "", 0)
                     /\ UNCHANGED <<unique, svcToCheck, toCheck, pending>>
                ELSE /\ svcToCheck' = svc
                     /\ IF unique.nil
                        THEN /\ Ends("panic", NewResponse, "", 1)
                             /\ UNCHANGED <<unique, toCheck, pending>>
                        ELSE IF ~HasProtectedAnnotations(unique, keys)
                        THEN /\ Ends("done", [warned EXCEPT !.Allowed = TRUE],
                                     "no protected annotations", 2)
                             /\ UNCHANGED <<unique, toCheck, pending>>
                        ELSE /\ toCheck' = filtered
                             /\ unique' = FilterReceiver(unique, svc.namespace,
                                                         keys)
                             /\ IF filtered.nil
                                THEN /\ Ends("panic", warned, "", 3)
                                     /\ UNCHANGED pending
                                ELSE /\ Ends("loop", warned, "", 3)
                                     /\ pending' = Scopes(filtered)

\* Validate called directly, as the tests call it
ValidateEnter(request, development) ==
    /\ EnterValidate(request, development)
    /\ UNCHANGED aux

(***************************************************************************)
(* One step of "for _, scope := range toCheck.Scopes()" up to the List     *)
(* call (lines 398-408), or the end of the loop (lines 448-450).           *)
(***************************************************************************)
NextScope ==
    /\ pc = "loop"
    /\ UNCHANGED <<config, ar, svcToCheck, toCheck, listFailed, aux>>
    /\ IF pending = {}
       THEN /\ Ends("done", [response EXCEPT !.Allowed = TRUE],
                    "no duplicate annotations", registryReads)
            /\ UNCHANGED <<pending, scope, listCalls>>
       ELSE \E next \in pending :
            /\ pending' = pending \ {next}
            /\ scope' = next
            /\ registryReads' = registryReads + 1
            /\ UNCHANGED <<response, logReason>>
            /\ IF ~HasProtectedInNamespace(unique, next, svcToCheck.annotations)
               THEN /\ pc' = "loop"
                    /\ UNCHANGED listCalls
               ELSE /\ pc' = "listing"
                    /\ listCalls' = Append(listCalls, ListNamespace(next))

(***************************************************************************)
(* The List call returns and its Items are scanned (lines 408-446).        *)
(***************************************************************************)
ListReturn(outcome) ==
    /\ pc = "listing"
    /\ UNCHANGED <<config, ar, svcToCheck, toCheck, pending, scope, listCalls,
                   aux>>
    /\ listFailed' = (listFailed \/ outcome # "ok")
    /\ IF outcome = "error-nil"
       THEN Ends("panic", response, logReason, registryReads)
       ELSE LET servicesInScope ==
                    IF outcome = "ok"
                    THEN List(services, ListNamespace(scope))
                    ELSE {}
                found == Conflicts(servicesInScope, svcToCheck)
            IN  IF found = {}
                THEN Ends("loop", response, logReason, registryReads)
                ELSE \E c \in found :
                        Ends("done",
                             [response EXCEPT !.Allowed = FALSE,
                                 !.Message = DenyMessage(c[1], c[2],
                                                svcToCheck.annotations[c[2]])],
                             "service exists with the same value for annotation",
                             registryReads)

(***************************************************************************)
(* The caller takes the response (or the panic unwinds); the handler is    *)
(* ready for the next request.                                             *)
(***************************************************************************)
HandBack ==
    /\ pc \in {"done", "panic"}
    /\ pc' = "idle"
    /\ ar' = NoRequest
    /\ svcToCheck' = ZeroService
    /\ response' = NewResponse
    /\ logReason' = ""
    /\ toCheck' = NilList
    /\ pending' = {}
    /\ scope' = ""
    /\ listCalls' = << >>
    /\ listFailed' = FALSE
    /\ registryReads' = 0
    /\ UNCHANGED config

Return ==
    /\ HandBack
    /\ UNCHANGED aux

Next ==
    \/ \E request \in Requests, development \in BOOLEAN :
            ValidateEnter(request, development)
    \/ NextScope
    \/ \E outcome \in ListOutcomes : ListReturn(outcome)
    \/ Return

Spec == Init /\ [][Next]_vars


(***************************************************************************)
(* Vocabulary of the properties.  These definitions read the request, the  *)
(* registry map and the cluster directly; they use none of the operators   *)
(* that model UniqueList or Validate.                                      *)
(***************************************************************************)
Returned == pc = "done"

Ended == pc \in {"done", "panic"}

\* the request is for the core/v1 resource "services"
SupportedRequest ==
    /\ ar.Resource.Group = ""
    /\ ar.Resource.Version = "v1"
    /\ ar.Resource.Resource = "services"

WellFormedRequest == ar.Object.wellFormed

\* the handler was built with a registry
HasRegistry == ~unique.nil

\* the Service the request asks to admit
Candidate ==
    [namespace |-> ar.Object.namespace, name |-> ar.Object.name,
     annotations |-> ar.Object.annotations]

\* key is registered under scope in the registry
Registered(sc, key) ==
    /\ sc \in DOMAIN unique.Annotations
    /\ key \in unique.Annotations[sc]

\* the scopes that apply to the candidate: its namespace and the cluster
ApplicableScopes == {Candidate.namespace, ClusterScope}

\* the existing Services other than the candidate
Others ==
    {e \in services :
        e.namespace # Candidate.namespace \/ e.name # Candidate.name}

\* e lies in scope sc
LiesIn(e, sc) == sc = ClusterScope \/ e.namespace = sc

\* e holds the candidate's value for key
SharesValue(e, key) ==
    /\ key \in DOMAIN Candidate.annotations
    /\ key \in DOMAIN e.annotations
    /\ e.annotations[key] = Candidate.annotations[key]

\* another Service in an applicable scope holds the candidate's value for a
\* key protected in that scope
ProtectedConflict ==
    \E e \in Others, sc \in ApplicableScopes, key \in Keys :
        Registered(sc, key) /\ LiesIn(e, sc) /\ SharesValue(e, key)

\* C1: Completeness of Validate.  For a supported, decodable candidate and
\* List calls that all succeed, if another existing Service in an applicable
\* scope holds the candidate's value for a key protected in that scope, the
\* call ends by returning allowed=false, whatever order the scopes, Services
\* and keys are scanned in.
C1_Completeness ==
    (Ended /\ SupportedRequest /\ WellFormedRequest /\ ~listFailed
           /\ ProtectedConflict)
        => (Returned /\ ~response.Allowed)

\* a conflict held by a Service of another namespace through Cluster scope,
\* found and denied
C1_Witness ==
    /\ Returned /\ SupportedRequest /\ WellFormedRequest /\ ~listFailed
    /\ \E e \in Others, key \in Keys :
          /\ e.namespace # Candidate.namespace
          /\ Registered(ClusterScope, key)
          /\ SharesValue(e, key)
    /\ ~response.Allowed


(***************************************************************************)
(* What a denial names: DenyMessage puts the namespace, the name and the   *)
(* key at positions 2, 4 and 6 of the message.                             *)
(***************************************************************************)
Denied == Returned /\ ~response.Allowed

DeniedNamespace == response.Message[2]

DeniedName == response.Message[4]

DeniedKey == response.Message[6]

\* C2: Soundness of DENY with respect to protected keys.  A denial is caused
\* only by a key that is registered under the scope being scanned; a key of
\* the candidate that is not protected in that scope never causes a denial.
C2_DenyOnlyForProtectedKey ==
    (Denied /\ SupportedRequest /\ WellFormedRequest /\ ~listFailed)
        => Registered(scope, DeniedKey)

\* C3: Scope isolation.  A key protected only in the candidate's namespace
\* (not in Cluster scope) is compared only against Services of that
\* namespace: a denial for such a key never names a Service of another
\* namespace, also when another key makes Cluster scope applicable.
C3_ScopeIsolation ==
    (Denied /\ SupportedRequest /\ WellFormedRequest /\ ~listFailed
            /\ Registered(Candidate.namespace, DeniedKey)
            /\ ~Registered(ClusterScope, DeniedKey))
        => DeniedNamespace = Candidate.namespace

\* C4: A failed List call is never turned into ALLOW: no call in which a
\* List call failed returns allowed=true.
C4_ListFailureNeverAllows ==
    listFailed => ~(Returned /\ response.Allowed)

\* none of the candidate's keys is protected in its namespace or in Cluster
NothingProtectedApplies ==
    \A key \in DOMAIN Candidate.annotations, sc \in ApplicableScopes :
        ~Registered(sc, key)

\* C5: Empty resolution admits without listing.  A supported, decodable
\* candidate none of whose keys is protected in its own namespace or in
\* Cluster scope is answered allowed=true, and List is never called.
C5_EmptyResolutionAdmits ==
    (Ended /\ SupportedRequest /\ WellFormedRequest /\ HasRegistry
           /\ NothingProtectedApplies)
        => (Returned /\ response.Allowed /\ listCalls = << >>)

\* the candidate is in the cluster and holds its own value for a key
\* protected in an applicable scope, and no other Service holds the
\* candidate's value for any protected key
OnlySelfHoldsProtectedValue ==
    /\ \E e \in services \ Others, sc \in ApplicableScopes, key \in Keys :
          Registered(sc, key) /\ SharesValue(e, key)
    /\ \A e \in Others, sc \in AllScopes, key \in Keys :
          Registered(sc, key) => ~SharesValue(e, key)

\* C6: Self-exclusion.  When the only existing Service that holds the
\* candidate's value for a protected key is the candidate itself, and the
\* List calls succeed, Validate returns allowed=true.
C6_SelfExclusion ==
    (Ended /\ SupportedRequest /\ WellFormedRequest /\ ~listFailed
           /\ OnlySelfHoldsProtectedValue)
        => (Returned /\ response.Allowed)

\* C7: Decode failure is fail-closed.  Validate never returns allowed=true
\* for a supported-resource request whose object cannot be decoded.
C7_DecodeFailureDenies ==
    (SupportedRequest /\ ~WellFormedRequest)
        => ~(Returned /\ response.Allowed)

\* C8: An unsupported resource is always admitted.  Whatever the registry
\* and the cluster hold, the call returns allowed=true with a non-empty
\* warning, calls List zero times and calls no registry method.
C8_UnsupportedAdmitted ==
    (Ended /\ ~SupportedRequest)
        => /\ Returned
           /\ response.Allowed
           /\ Len(response.Warnings) > 0
           /\ \A i \in 1..Len(response.Warnings) : response.Warnings[i] # ""
           /\ listCalls = << >>
           /\ registryReads = 0

\* an unsupported request answered while the registry protects keys and the
\* cluster holds Services
C8_Witness ==
    /\ Returned /\ ~SupportedRequest
    /\ \E sc \in DOMAIN unique.Annotations : unique.Annotations[sc] # {}
    /\ services # {}
    /\ response.Allowed

\* C9: Zero-call property.  A decodable candidate Service without
\* annotations is answered allowed=true with the reason "no protected
\* annotations", and List is called zero times, for every registry.
C9_ZeroCall ==
    (Ended /\ SupportedRequest /\ WellFormedRequest /\ HasRegistry
           /\ DOMAIN Candidate.annotations = {})
        => /\ Returned
           /\ response.Allowed
           /\ logReason = "no protected annotations"
           /\ listCalls = << >>

\* a candidate without annotations answered under a registry that protects
\* keys in its namespace and in Cluster scope
C9_Witness ==
    /\ Returned /\ SupportedRequest /\ WellFormedRequest
    /\ DOMAIN Candidate.annotations = {}
    /\ \A sc \in ApplicableScopes :
          sc \in DOMAIN unique.Annotations /\ unique.Annotations[sc] # {}
    /\ response.Allowed

\* some key of the candidate is protected in an applicable scope, and no
\* other Service in such a scope holds the candidate's value for such a key
NoProtectedConflict ==
    /\ ~NothingProtectedApplies
    /\ ~ProtectedConflict

\* C10: No conflict admits.  When the List calls succeed for every
\* applicable scope and no Service other than the candidate holds the
\* candidate's value for a relevant protected key, Validate returns
\* allowed=true with the reason "no duplicate annotations".
C10_NoConflictAdmits ==
    (Ended /\ SupportedRequest /\ WellFormedRequest /\ ~listFailed
           /\ NoProtectedConflict)
        => /\ Returned
           /\ response.Allowed
           /\ logReason = "no duplicate annotations"


\* no Service other than the candidate holds the candidate's value for any key
NoSharedValue == \A e \in Others, key \in Keys : ~SharesValue(e, key)

\* C11: A handler built without a unique list answers Validate for a
\* supported Service request: the call returns a response instead of
\* faulting, with allowed=true when no other Service holds the same value.
C11_NoRegistryAnswers ==
    (Ended /\ SupportedRequest /\ WellFormedRequest /\ ~HasRegistry)
        => (Returned /\ (NoSharedValue => response.Allowed))

\* some key is registered under Cluster scope and under a concrete namespace
CrossScopeConflict ==
    \E key \in Keys, ns \in Namespaces :
        Registered(ClusterScope, key) /\ Registered(ns, key)

CarriesConflictWarning ==
    \E i \in 1..Len(response.Warnings) : response.Warnings[i] = DuplicateWarning

\* C12: The cross-scope conflict is advisory.  When the registry protects a
\* key both in Cluster scope and in a concrete namespace, every decision for
\* a supported Service request (early allow, allow after the scan, deny)
\* carries the conflict warning, and the conflict alone never denies: with no
\* other Service sharing a value of the candidate the decision is allowed.
C12_ConflictIsAdvisory ==
    (Returned /\ SupportedRequest /\ HasRegistry /\ CrossScopeConflict)
        => /\ CarriesConflictWarning
           /\ NoSharedValue => response.Allowed

\* a denial under a registry with a cross-scope conflict
C12_Witness ==
    /\ Denied /\ SupportedRequest /\ WellFormedRequest /\ CrossScopeConflict
    /\ CarriesConflictWarning

DeniedValue == response.Message[8]

\* the namespace of the List call that was scanned last
LastListed == listCalls[Len(listCalls)]

\* C13: Every DENY names a real conflict.  The message of a denial holds
\* namespace/name, key and value of an existing Service that is not the
\* candidate, was returned by the List call just scanned, and holds exactly
\* that value for that key, which is the candidate's value for the key.
C13_DenyNamesRealConflict ==
    Denied =>
        /\ Len(response.Message) = 8
        /\ response.Message[3] = "/"
        /\ \E e \in Others :
              /\ e.namespace = DeniedNamespace
              /\ e.name = DeniedName
              /\ Len(listCalls) > 0
              /\ LastListed = "" \/ LastListed = e.namespace
              /\ DeniedKey \in DOMAIN e.annotations
              /\ e.annotations[DeniedKey] = DeniedValue
              /\ DeniedKey \in DOMAIN Candidate.annotations
              /\ Candidate.annotations[DeniedKey] = DeniedValue

\* a denial that names a Service of the candidate's namespace while a
\* Service of the same name exists in another namespace
C13_Witness ==
    /\ Denied /\ SupportedRequest /\ WellFormedRequest
    /\ Cardinality(services) = 2
    /\ DeniedNamespace = Candidate.namespace
    /\ DeniedName # Candidate.name

\* C17: No uncaught faults.  With a registry and a decodable supported
\* request, every internal error (an absent resolver result, a failed List
\* call) is returned as a result: Validate never ends in a panic.
C17_NoPanic ==
    (HasRegistry /\ SupportedRequest /\ WellFormedRequest) => pc # "panic"

\* the candidate has a key protected in scope sc
Applicable(sc) ==
    \E key \in DOMAIN Candidate.annotations : Registered(sc, key)

\* C20: The scope processing order is fixed.  When the candidate's
\* namespace scope and Cluster scope both apply, the first List call is for
\* the namespace and the second for the cluster, in every execution.
C20_NamespaceFirst ==
    (SupportedRequest /\ WellFormedRequest /\ HasRegistry
        /\ Applicable(Candidate.namespace) /\ Applicable(ClusterScope)
        /\ Len(listCalls) > 0)
        => /\ listCalls[1] = Candidate.namespace
           /\ Len(listCalls) > 1 => listCalls[2] = ""


(***************************************************************************)
(* The handler as main builds it: the registry protects "ncp/snat_pool"    *)
(* in Cluster scope.  The steps Validate takes by itself are fair; a new   *)
(* request need not arrive and the List call, which is given               *)
(* context.TODO(), need not return.                                        *)
(***************************************************************************)
\* unique.Annotations[validator.ClusterScope] = []validator.Annotation{"ncp/snat_pool"}
MainAnnotations == [sc \in {ClusterScope} |-> {"ncp/snat_pool"}]

InitMain ==
    /\ Init
    /\ unique = UniqueListOf(MainAnnotations)
    /\ Cardinality(services) <= 1

FairSpec ==
    /\ InitMain
    /\ [][Next]_vars
    /\ WF_vars(NextScope)
    /\ WF_vars(Return)

\* C18: Bounded response to a stuck lister.  Every Validate call that has
\* reached its scope loop eventually ends, also when the List call does not
\* return.
C18_EveryCallEnds ==
    (pc \in {"loop", "listing"}) ~> Ended


(***************************************************************************)
(* The same request validated again against the same registry and the     *)
(* same Services.  The history variable previous keeps the request and the *)
(* decision of the call that ended last; once a call has ended only its    *)
(* request is validated again.                                             *)
(***************************************************************************)
InitRepeat ==
    /\ Init
    /\ Cardinality(services) <= 1

ValidateFirst(request, development) ==
    /\ ~previous.set
    /\ ValidateEnter(request, development)

ValidateAgain(development) ==
    /\ previous.set
    /\ ValidateEnter(previous.request, development)

ReturnRecorded ==
    /\ HandBack
    /\ previous' = [set |-> TRUE, request |-> ar, returned |-> pc = "done",
                    response |-> response, reason |-> logReason,
                    listFailed |-> listFailed]
    /\ UNCHANGED <<bytesVars, rwVars, queryVars, outerVars>>

NextRepeat ==
    \/ \E request \in Requests, development \in BOOLEAN :
            ValidateFirst(request, development)
    \/ \E development \in BOOLEAN : ValidateAgain(development)
    \/ NextScope
    \/ \E outcome \in ListOutcomes : ListReturn(outcome)
    \/ ReturnRecorded

SpecRepeat == InitRepeat /\ [][NextRepeat]_vars

\* C14: Idempotence of Validate.  Two calls with the same candidate, the
\* same registry and the same unchanged Services, whose List calls succeed,
\* return the same decision: same allowed flag, same message (the Service
\* and key it names), same warnings and same reason.
C14_Idempotent ==
    (Returned /\ previous.set /\ previous.returned /\ previous.request = ar
        /\ WellFormedRequest /\ ~listFailed /\ ~previous.listFailed)
        => /\ response = previous.response
           /\ logReason = previous.reason

(***************************************************************************)
(* ValidateBytes (lines 315-334): the entry point of the HTTP handler.     *)
(* Every request goroutine takes h.lock before it decodes the review and   *)
(* holds it until Validate has returned or the panic has unwound.          *)
(***************************************************************************)
\* the bytes handed to ValidateBytes: an AdmissionReview of version v1 with
\* its request, an object of another kind, or bytes that do not decode
ReviewData ==
    [kind : {"AdmissionReview"}, Request : Requests]
        \cup [kind : {"Service", "garbage"}, Request : {NoRequest}]

InitBytes == InitMain

\* the goroutine of a request reaches h.lock.Lock()
BytesCall(r) ==
    /\ bytesPc[r] = "idle"
    /\ bytesPc' = [bytesPc EXCEPT ![r] = "waiting"]
    /\ UNCHANGED <<config, validateVars, previous, outerVars, lock, rwVars, queryVars>>

\* Lock succeeds, the review is decoded and Validate runs up to its loop
BytesEnter(r, data, development) ==
    /\ bytesPc[r] = "waiting"
    /\ lock = 0
    /\ pc = "idle"
    /\ lock' = r
    /\ bytesPc' = [bytesPc EXCEPT ![r] = "inside"]
    /\ UNCHANGED <<previous, rwVars, queryVars, outerVars>>
    /\ IF data.kind # "AdmissionReview"
       THEN /\ Ends("panic", NewResponse, "", 0)
            /\ UNCHANGED <<config, ar, svcToCheck, toCheck, pending, scope,
                           listCalls, listFailed>>
       ELSE EnterValidate(data.Request, development)

\* the lock is still held when a panic unwinds
AfterUnlockOnReturnOnly(r, how) == IF how = "panic" THEN r ELSE 0

\* defer h.lock.Unlock(): the lock after the call has ended, by a return or
\* by a panic
AfterUnlock(r, how) == 0

\* Validate has returned or panicked: the deferred Unlock runs
BytesReturn(r) ==
    /\ bytesPc[r] = "inside"
    /\ lock = r
    /\ HandBack
    /\ lock' = AfterUnlock(r, pc)
    /\ bytesPc' = [bytesPc EXCEPT ![r] = "idle"]
    /\ previous' = [set |-> TRUE, request |-> ar, returned |-> pc = "done",
                    response |-> response, reason |-> logReason,
                    listFailed |-> listFailed]
    /\ UNCHANGED <<rwVars, queryVars, outerVars>>

NextBytes ==
    \/ \E r \in Callers : BytesCall(r)
    \/ \E r \in Callers, data \in ReviewData, development \in BOOLEAN :
            BytesEnter(r, data, development)
    \/ NextScope
    \/ \E outcome \in ListOutcomes : ListReturn(outcome)
    \/ \E r \in Callers : BytesReturn(r)

SpecBytes == InitBytes /\ [][NextBytes]_vars

\* C15: Validations run in parallel.  A validation that waits in its List
\* call does not hold back another request: a request that has called
\* ValidateBytes while another one is listing finds the handler lock free.
C15_NotHeldBack ==
    \A r \in Callers :
        (pc = "listing" /\ bytesPc[r] = "waiting") => lock = 0


(***************************************************************************)
(* The registry under its RWMutex.  A call of a UniqueList method is the   *)
(* sequence of its RLock and RUnlock calls and of its reads of the         *)
(* Annotations map, nested calls included, in program order.               *)
(***************************************************************************)

MaxWrites == 2

RECURSIVE Repeat(_, _)
Repeat(ops, n) == IF n = 0 THEN << >> ELSE ops \o Repeat(ops, n - 1)

HasNamespaceOps == <<"RLock", "read", "RUnlock">>

ProtectedInNamespaceOps(s, namespace) ==
    <<"RLock">> \o HasNamespaceOps
        \o (IF HasNamespace(s, namespace) THEN <<"read">> ELSE << >>)
        \o <<"RUnlock">>

ProtectedInClusterOps(s) ==
    <<"RLock">> \o ProtectedInNamespaceOps(s, ClusterScope) \o <<"RUnlock">>

ProtectedInAnyNamespaceOps == <<"RLock", "read", "RUnlock">>

IsProtectedOps(s, annotation) ==
    <<"RLock">> \o ProtectedInClusterOps(s)
        \o (IF ProtectedInCluster(s, annotation) THEN << >>
            ELSE ProtectedInAnyNamespaceOps)
        \o <<"RUnlock">>

RECURSIVE UntilProtected(_, _)
UntilProtected(s, serviceAnnotations) ==
    IF serviceAnnotations = << >> THEN << >>
    ELSE IsProtectedOps(s, Head(serviceAnnotations))
            \o (IF IsProtected(s, Head(serviceAnnotations)) THEN << >>
                ELSE UntilProtected(s, Tail(serviceAnnotations)))

HasProtectedAnnotationsOps(s, serviceAnnotations) ==
    <<"RLock">> \o UntilProtected(s, serviceAnnotations) \o <<"RUnlock">>

FilterOps(s, namespace, serviceAnnotations) ==
    <<"RLock">> \o HasNamespaceOps
        \o (IF HasNamespace(s, namespace) THEN << >> ELSE HasNamespaceOps)
        \o (IF ~HasNamespace(s, namespace) /\ ~HasNamespace(s, ClusterScope)
            THEN << >>
            ELSE Repeat(ProtectedInNamespaceOps(s, namespace)
                            \o ProtectedInClusterOps(s),
                        Len(serviceAnnotations)))
        \o <<"RUnlock">>

ScopesOps == <<"RLock", "read", "RUnlock">>

\* the range over the map visits the entries in some order and stops at the
\* first annotation that is protected in cluster scope
RECURSIVE UntilDuplicate(_, _)
UntilDuplicate(s, entries) ==
    IF entries = {} THEN << >>
    ELSE LET e == CHOOSE x \in entries : TRUE
         IN  ProtectedInClusterOps(s)
                \o (IF ProtectedInCluster(s, e[2]) THEN << >>
                    ELSE UntilDuplicate(s, entries \ {e}))

HasDuplicateOps(s) ==
    <<"RLock", "read">>
        \o UntilDuplicate(s, {<<namespace, a>> \in AllScopes \X Keys :
                                /\ namespace # ClusterScope
                                /\ ProtectedInNamespace(s, namespace, a)})
        \o <<"RUnlock">>

\* s.Annotations[namespace] is read once for every annotation looked at
RECURSIVE UntilContained(_, _, _)
UntilContained(s, namespace, annotations) ==
    IF annotations = << >> THEN << >>
    ELSE <<"read">>
            \o (IF Head(annotations) \in s.Annotations[namespace] THEN << >>
                ELSE UntilContained(s, namespace, Tail(annotations)))

HasProtectedInNamespaceOps(s, namespace, annotations) ==
    HasNamespaceOps
        \o (IF HasNamespace(s, namespace)
            THEN UntilContained(s, namespace, annotations)
            ELSE << >>)

LockScopes == {"default", ClusterScope}

AnnotationLists == {<< >>, <<"ncp/snat_pool">>, <<"team", "ncp/snat_pool">>}

ReaderCalls ==
    [method : {"HasNamespace"}, namespace : LockScopes, annotations : {<< >>}]
    \cup [method : {"Scopes", "HasDuplicate"}, namespace : {""},
          annotations : {<< >>}]
    \cup [method : {"ProtectedInNamespace"}, namespace : LockScopes,
          annotations : {<<"ncp/snat_pool">>}]
    \cup [method : {"ProtectedInCluster", "ProtectedInAnyNamespace",
                    "IsProtected"},
          namespace : {""}, annotations : {<<"ncp/snat_pool">>}]
    \cup [method : {"HasProtectedAnnotations"}, namespace : {""},
          annotations : AnnotationLists]
    \cup [method : {"Filter", "HasProtectedInNamespace"},
          namespace : LockScopes, annotations : AnnotationLists]

OpsOf(s, c) ==
    CASE c.method = "HasNamespace" -> HasNamespaceOps
      [] c.method = "ProtectedInNamespace" ->
            ProtectedInNamespaceOps(s, c.namespace)
      [] c.method = "Filter" -> FilterOps(s, c.namespace, c.annotations)
      [] c.method = "Scopes" -> ScopesOps
      [] c.method = "HasDuplicate" -> HasDuplicateOps(s)
      [] c.method = "ProtectedInCluster" -> ProtectedInClusterOps(s)
      [] c.method = "ProtectedInAnyNamespace" -> ProtectedInAnyNamespaceOps
      [] c.method = "HasProtectedInNamespace" ->
            HasProtectedInNamespaceOps(s, c.namespace, c.annotations)
      [] c.method = "IsProtected" -> IsProtectedOps(s, c.annotations[1])
      [] c.method = "HasProtectedAnnotations" ->
            HasProtectedAnnotationsOps(s, c.annotations)

\* the writer is in Lock, waiting for the readers to leave
WriterWaiting == writerPc = "waiting"

\* the writer holds the exclusive lock
WriterHolds == writerPc \in {"locked", "written"}

\* RLock returns only when no writer holds the lock or waits for it
RLockGranted == ~WriterWaiting /\ ~WriterHolds

\* the program starts with a registry without entries; init() fills it
InitLock ==
    /\ Init
    /\ unique = UniqueListOf(EmptyMap)
    /\ services = {}

Proceed(ops, held) ==
    /\ readerOps' = ops
    /\ readerHeld' = held
    /\ rwReaders' = rwReaders + (held - readerHeld)
    /\ readerCall' = IF ops = << >> THEN NoCall ELSE readerCall
    /\ UNCHANGED <<config, validateVars, previous, outerVars, bytesVars, queryVars,
                   writerPc, writes>>

\* a goroutine calls a method of the registry and passes its first RLock
ReaderCall(c) ==
    /\ readerCall = NoCall
    /\ RLockGranted
    /\ readerCall' = c
    /\ readerOps' = Tail(OpsOf(unique, c))
    /\ readerHeld' = 1
    /\ rwReaders' = rwReaders + 1
    /\ UNCHANGED <<config, validateVars, previous, outerVars, bytesVars, queryVars,
                   writerPc, writes>>

ReaderRLock ==
    /\ readerOps # << >>
    /\ Head(readerOps) = "RLock"
    /\ RLockGranted
    /\ Proceed(Tail(readerOps), readerHeld + 1)

ReaderRead ==
    /\ readerOps # << >>
    /\ Head(readerOps) = "read"
    /\ Proceed(Tail(readerOps), readerHeld)

ReaderRUnlock ==
    /\ readerOps # << >>
    /\ Head(readerOps) = "RUnlock"
    /\ Proceed(Tail(readerOps), readerHeld - 1)

\* unique.Lock() is called
WriterLock ==
    /\ writerPc = "idle"
    /\ writes < MaxWrites
    /\ writerPc' = "waiting"
    /\ UNCHANGED <<config, validateVars, previous, outerVars, bytesVars, queryVars,
                   rwReaders, writes, readerCall, readerOps, readerHeld>>

\* Lock returns once every read lock is released
WriterAcquire ==
    /\ writerPc = "waiting"
    /\ rwReaders = 0
    /\ writerPc' = "locked"
    /\ UNCHANGED <<config, validateVars, previous, outerVars, bytesVars, queryVars,
                   rwReaders, writes, readerCall, readerOps, readerHeld>>

\* unique.Annotations[namespace] = annotations
WriterStore(namespace, annotations) ==
    /\ writerPc = "locked"
    /\ unique' = UniqueListOf(
            [sc \in DOMAIN unique.Annotations \cup {namespace} |->
                IF sc = namespace THEN annotations
                ELSE unique.Annotations[sc]])
    /\ writerPc' = "written"
    /\ writes' = writes + 1
    /\ UNCHANGED <<services, validateVars, previous, outerVars, bytesVars, queryVars,
                   rwReaders, readerCall, readerOps, readerHeld>>

WriterUnlock ==
    /\ writerPc = "written"
    /\ writerPc' = "idle"
    /\ UNCHANGED <<config, validateVars, previous, outerVars, bytesVars, queryVars,
                   rwReaders, writes, readerCall, readerOps, readerHeld>>

NextLock ==
    \/ \E c \in ReaderCalls : ReaderCall(c)
    \/ ReaderRLock
    \/ ReaderRead
    \/ ReaderRUnlock
    \/ WriterLock
    \/ WriterAcquire
    \/ \E namespace \in LockScopes, annotations \in SUBSET Keys \ {{}} :
            WriterStore(namespace, annotations)
    \/ WriterUnlock

SpecLock == InitLock /\ [][NextLock]_vars

\* the reader goroutine is about to read the Annotations map
ReaderAtRead == readerOps # << >> /\ Head(readerOps) = "read"

\* C16: Registry reads are atomic with respect to mutation.  Whenever a
\* UniqueList method reads the annotation map, its goroutine holds the read
\* lock, and no writer holds the exclusive lock at that moment.
C16_ReadsUnderLock ==
    ReaderAtRead => (readerHeld > 0 /\ ~WriterHolds)


(***************************************************************************)
(* The methods of the registry called on their own, as the tests of the    *)
(* validator package call them.                                            *)
(***************************************************************************)

InitQuery ==
    /\ Init
    /\ ~unique.nil
    /\ services = {}

\* filtered := unique.Filter(namespace, serviceAnnotations)
AskFilter(namespace, serviceAnnotations) ==
    /\ query' = [method |-> "Filter", namespace |-> namespace,
                 annotations |-> serviceAnnotations]
    /\ answer' = [list |-> Filter(unique, namespace, serviceAnnotations),
                  bool |-> FALSE]
    /\ unique' = FilterReceiver(unique, namespace, serviceAnnotations)
    /\ UNCHANGED <<services, validateVars, previous, outerVars, bytesVars, rwVars>>

Answered(method, namespace, annotations, result) ==
    /\ query' = [method |-> method, namespace |-> namespace,
                 annotations |-> annotations]
    /\ answer' = [list |-> NilList, bool |-> result]

\* unique.HasDuplicate()
AskHasDuplicate ==
    /\ Answered("HasDuplicate", "", {}, HasDuplicate(unique))
    /\ UNCHANGED <<config, validateVars, previous, outerVars, bytesVars, rwVars>>

\* unique.ProtectedInNamespace(namespace, annotation)
AskProtectedInNamespace(namespace, annotation) ==
    /\ Answered("ProtectedInNamespace", namespace, {annotation},
                ProtectedInNamespace(unique, namespace, annotation))
    /\ UNCHANGED <<config, validateVars, previous, outerVars, bytesVars, rwVars>>

\* unique.ProtectedInCluster(annotation)
AskProtectedInCluster(annotation) ==
    /\ Answered("ProtectedInCluster", "", {annotation},
                ProtectedInCluster(unique, annotation))
    /\ UNCHANGED <<config, validateVars, previous, outerVars, bytesVars, rwVars>>

\* unique.HasNamespace(namespace)
AskHasNamespace(namespace) ==
    /\ Answered("HasNamespace", namespace, {},
                HasNamespace(unique, namespace))
    /\ UNCHANGED <<config, validateVars, previous, outerVars, bytesVars, rwVars>>

\* the result goes out of use
Forget ==
    /\ query # NoQuery
    /\ query' = NoQuery
    /\ answer' = NoAnswer
    /\ UNCHANGED <<config, validateVars, previous, outerVars, bytesVars, rwVars>>

NextQuery ==
    \/ \E namespace \in Namespaces, serviceAnnotations \in SUBSET Keys :
            AskFilter(namespace, serviceAnnotations)
    \/ AskHasDuplicate
    \/ \E namespace \in AllScopes, annotation \in Keys :
            AskProtectedInNamespace(namespace, annotation)
    \/ \E annotation \in Keys : AskProtectedInCluster(annotation)
    \/ \E namespace \in AllScopes : AskHasNamespace(namespace)
    \/ Forget

SpecQuery == InitQuery /\ [][NextQuery]_vars

Filtered == query.method = "Filter"

\* the keys of the query protected in a scope of the registry
ProtectedOfQuery(sc) == {key \in query.annotations : Registered(sc, key)}

\* the result holds exactly the scopes of the query's namespace and Cluster
\* that protect a key of the query, each with exactly those keys
ExactScopes ==
    /\ DOMAIN answer.list.Annotations \subseteq {query.namespace, ClusterScope}
    /\ \A sc \in {query.namespace, ClusterScope} :
        IF ProtectedOfQuery(sc) = {}
        THEN sc \notin DOMAIN answer.list.Annotations
        ELSE /\ sc \in DOMAIN answer.list.Annotations
             /\ answer.list.Annotations[sc] = ProtectedOfQuery(sc)

\* C19: Resolver result (Filter).  The result is a list that contains only
\* the scopes ns and Cluster, each mapped to exactly the keys of K protected
\* in it, and no scope without such a key; with K empty it has no scope, and
\* when neither ns nor Cluster is registered it is the empty list.
C19_FilterResult ==
    Filtered => (~answer.list.nil /\ ExactScopes)


(***************************************************************************)
(* The List calls of one Validate call.                                    *)
(***************************************************************************)

\* the selector that stands for a scope: all namespaces for Cluster
Selector(sc) == IF sc = ClusterScope THEN "" ELSE sc

\* the existing Services a List call with selector sel returns
Selected(sel) == {e \in services : sel = "" \/ e.namespace = sel}

\* a Service returned for sel that is not the candidate and holds the
\* candidate's value for one of its keys
ConflictIn(sel) ==
    \E e \in Selected(sel) \cap Others, key \in Keys : SharesValue(e, key)

\* C21: Listing selector and call count.  Every List call of a Validate call
\* is for an applicable scope (the candidate's namespace or Cluster, with a
\* candidate key protected in it), no scope is listed twice, the selector is
\* empty exactly for Cluster and is the candidate's namespace otherwise, no
\* other namespace is ever listed, and no List call follows the one whose
\* result held a conflict.
C21_ListingSelector ==
    /\ \A i \in 1..Len(listCalls) :
          /\ \E sc \in ApplicableScopes :
                Applicable(sc) /\ listCalls[i] = Selector(sc)
          /\ listCalls[i] \in {"", Candidate.namespace}
          /\ listCalls[i] \notin AllScopes \ {Candidate.namespace}
    /\ \A i, j \in 1..Len(listCalls) : i # j => listCalls[i] # listCalls[j]
    /\ ~listFailed =>
          \A i \in 1..(Len(listCalls) - 1) : ~ConflictIn(listCalls[i])

\* both applicable scopes listed, the namespace without a conflict, and a
\* denial after the second call
C21_Witness ==
    /\ Denied /\ SupportedRequest /\ WellFormedRequest /\ ~listFailed
    /\ Len(listCalls) = 2
    /\ {listCalls[1], listCalls[2]} = {"", Candidate.namespace}
    /\ ConflictIn(LastListed)


\* the key a query of one key asks for
QueriedKey == CHOOSE key \in query.annotations : TRUE

\* C22: HasDuplicate returns true if and only if some key is registered under
\* Cluster scope and also under at least one concrete namespace; a registry
\* with only Cluster entries or only namespace entries yields false.
C22_HasDuplicate ==
    query.method = "HasDuplicate" =>
        (answer.bool <=>
            \E key \in Keys, sc \in AllScopes \ {ClusterScope} :
                Registered(ClusterScope, key) /\ Registered(sc, key))

\* true for a registry that also has a key registered in a namespace only
C22_Witness ==
    /\ query.method = "HasDuplicate"
    /\ answer.bool
    /\ \E key \in Keys, sc \in AllScopes \ {ClusterScope} :
          Registered(sc, key) /\ ~Registered(ClusterScope, key)

\* C23: ProtectedInNamespace(scope, key) returns true if and only if key is
\* in the list registered under scope, so false for a scope that is not
\* registered; ProtectedInCluster(key) returns what
\* ProtectedInNamespace(Cluster, key) returns.
C23_ProtectedInNamespace ==
    /\ query.method = "ProtectedInNamespace" =>
          (answer.bool <=> Registered(query.namespace, QueriedKey))
    /\ query.method = "ProtectedInCluster" =>
          (answer.bool <=> Registered(ClusterScope, QueriedKey))

\* false for a registered scope while another scope has the key
C23_Witness ==
    /\ query.method = "ProtectedInNamespace"
    /\ ~answer.bool
    /\ query.namespace \in DOMAIN unique.Annotations
    /\ \E sc \in AllScopes : Registered(sc, QueriedKey)

\* C24: HasNamespace(scope) returns true if and only if the scope has a
\* registration in the registry, one with an empty key list included.
C24_HasNamespace ==
    query.method = "HasNamespace" =>
        (answer.bool <=> query.namespace \in DOMAIN unique.Annotations)

\* true for a scope registered with no key
C24_Witness ==
    /\ query.method = "HasNamespace"
    /\ answer.bool
    /\ unique.Annotations[query.namespace] = {}


\* C25: Validate is read-only.  No step of a Validate call, whatever its
\* outcome, changes the registry's scope-to-keys mapping or the Services
\* present in the cluster; Filter, called inside it, builds a new list and
\* leaves its receiver as it was.
C25_ReadOnly ==
    [][unique' = unique /\ services' = services]_vars

\* a call that returned after Filter dropped a scope of the registry and a
\* List call returned Services
C25_Witness ==
    /\ Returned /\ SupportedRequest /\ HasRegistry
    /\ ~toCheck.nil
    /\ DOMAIN toCheck.Annotations # DOMAIN unique.Annotations
    /\ Len(listCalls) > 0
    /\ services # {}


\* a reader that is scheduled goes on, and Lock and Unlock of the writer
\* return when they can
FairLock ==
    /\ InitLock
    /\ [][NextLock]_vars
    /\ WF_vars(ReaderRLock)
    /\ WF_vars(ReaderRead)
    /\ WF_vars(ReaderRUnlock)
    /\ WF_vars(WriterAcquire)
    /\ WF_vars(\E namespace \in LockScopes, annotations \in SUBSET Keys \ {{}} :
                    WriterStore(namespace, annotations))
    /\ WF_vars(WriterUnlock)

\* C26: Deadlock freedom of registry reads with a writer.  A reader inside a
\* UniqueList method eventually leaves it, and a writer that has requested
\* the exclusive lock eventually gets it and releases it, also when the
\* method takes the read lock again in nested calls.
C26_AllComplete ==
    /\ (readerCall # NoCall) ~> (readerCall = NoCall)
    /\ (writerPc = "waiting") ~> (writerPc = "idle")

\* C28: The handler mutex is always released.  The lock is held only by a
\* ValidateBytes call that is still inside; once a call has ended, by
\* returning a review or by a panic, the lock is free for the next call.
C28_LockReleased ==
    /\ \A r \in Callers : lock = r => bytesPc[r] = "inside"
    /\ (\A r \in Callers : bytesPc[r] # "inside") => lock = 0

\* a call has ended in a panic and a later call holds the lock
C28_Witness ==
    /\ previous.set
    /\ ~previous.returned
    /\ lock # 0
    /\ bytesPc[lock] = "inside"


(***************************************************************************)
(* Validate with the registry written between its calls of h.unique.  Each *)
(* method of the registry takes and releases the read lock on its own, so  *)
(* between two calls a writer can take the lock, store and unlock.         *)
(***************************************************************************)

InitMutate == InitMain

\* lines 343-385: the request is checked and decoded, HasDuplicate is asked
ValidateStart(request, development) ==
    /\ pc = "idle"
    /\ ar' = request
    /\ seen' = {unique}
    /\ UNCHANGED <<config, toCheck, pending, scope, listCalls, listFailed,
                   previous, bytesVars, rwVars, queryVars, http>>
    /\ IF request.Resource # serviceRessource
       THEN /\ Ends("done", [NewResponse EXCEPT !.Allowed = TRUE,
                                !.Warnings = <<UnsupportedWarning>>], "", 0)
            /\ UNCHANGED svcToCheck
       ELSE LET decoded == Decode(request.Object)
            IN  IF decoded.err /\ development
                THEN /\ Ends("panic", NewResponse, "", 0)
                     /\ UNCHANGED svcToCheck
                ELSE /\ svcToCheck' = decoded.obj
                     /\ IF unique.nil
                        THEN Ends("panic", NewResponse, "", 1)
                        ELSE Ends("warned",
                                  IF HasDuplicate(unique)
                                  THEN [NewResponse EXCEPT
                                            !.Warnings = <<DuplicateWarning>>]
                                  ELSE NewResponse,
                                  "", 1)

\* lines 387-392: HasProtectedAnnotations is asked
CheckProtected ==
    /\ pc = "warned"
    /\ UNCHANGED <<config, ar, svcToCheck, toCheck, pending, scope, listCalls,
                   listFailed, aux>>
    /\ IF ~HasProtectedAnnotations(unique, DOMAIN svcToCheck.annotations)
       THEN Ends("done", [response EXCEPT !.Allowed = TRUE],
                 "no protected annotations", 2)
       ELSE Ends("filter", response, logReason, 2)

\* lines 396-398: Filter is asked and the loop over its scopes begins
CallFilter ==
    /\ pc = "filter"
    /\ LET filtered == Filter(unique, svcToCheck.namespace,
                              DOMAIN svcToCheck.annotations)
       IN  /\ toCheck' = filtered
           /\ unique' = FilterReceiver(unique, svcToCheck.namespace,
                                       DOMAIN svcToCheck.annotations)
           /\ IF filtered.nil
              THEN /\ Ends("panic", response, logReason, 3)
                   /\ UNCHANGED pending
              ELSE /\ Ends("loop", response, logReason, 3)
                   /\ pending' = Scopes(filtered)
    /\ UNCHANGED <<services, ar, svcToCheck, scope, listCalls, listFailed, aux>>

\* a writer locks the registry, stores an entry and unlocks, all between two
\* calls of the Validate call under way
StoreBetween(namespace, annotations) ==
    /\ pc \in {"warned", "filter", "loop", "listing"}
    /\ writes < MaxWrites
    /\ unique' = UniqueListOf(
            [sc \in DOMAIN unique.Annotations \cup {namespace} |->
                IF sc = namespace THEN annotations
                ELSE unique.Annotations[sc]])
    /\ seen' = seen \cup {unique'}
    /\ writes' = writes + 1
    /\ UNCHANGED <<services, validateVars, previous, bytesVars, queryVars,
                   rwReaders, writerPc, readerCall, readerOps, readerHeld,
                   http>>

ReturnSeen ==
    /\ HandBack
    /\ seen' = {}
    /\ UNCHANGED <<previous, bytesVars, rwVars, queryVars, http>>

NextMutate ==
    \/ \E request \in Requests, development \in BOOLEAN :
            ValidateStart(request, development)
    \/ CheckProtected
    \/ CallFilter
    \/ NextScope
    \/ \E outcome \in ListOutcomes : ListReturn(outcome)
    \/ \E namespace \in LockScopes, annotations \in SUBSET Keys \ {{}} :
            StoreBetween(namespace, annotations)
    \/ ReturnSeen

SpecMutate == InitMutate /\ [][NextMutate]_vars

\* the responses Validate can return for svc when the registry is u during
\* the whole call and every List call succeeds (lines 382-450); no response
\* when the call panics
Decisions(u, svc) ==
    LET keys == DOMAIN svc.annotations
        warned == IF HasDuplicate(u)
                  THEN [NewResponse EXCEPT !.Warnings = <<DuplicateWarning>>]
                  ELSE NewResponse
        filtered == Filter(u, svc.namespace, keys)
        listed == {sc \in Scopes(filtered) :
                      HasProtectedInNamespace(u, sc, svc.annotations)}
        found == UNION {Conflicts(List(services, ListNamespace(sc)), svc) :
                            sc \in listed}
    IN  IF ~HasProtectedAnnotations(u, keys)
        THEN {[warned EXCEPT !.Allowed = TRUE]}
        ELSE IF filtered.nil THEN {}
        ELSE IF found = {} THEN {[warned EXCEPT !.Allowed = TRUE]}
        ELSE {[warned EXCEPT !.Allowed = FALSE,
                  !.Message = DenyMessage(c[1], c[2], svc.annotations[c[2]])] :
                    c \in found}

\* C27: One Validate call sees one registry state.  With a writer storing
\* entries between the call's registry queries, a call for a supported,
\* decodable request whose List calls succeed does not fault, and the
\* response it returns is one Validate returns on a single registry state
\* that existed during the call.
C27_OneRegistryState ==
    (Ended /\ SupportedRequest /\ WellFormedRequest /\ ~listFailed)
        => /\ Returned
           /\ \E u \in seen : response \in Decisions(u, Candidate)


(***************************************************************************)
(* The admission endpoint: AdmissionReviewRequesthandler.  The handler     *)
(* goroutine is caller 1 of ValidateBytes.  Marshalling the review that    *)
(* ValidateBytes returns does not fail.                                    *)
(***************************************************************************)

ContentTypes == {"application/json", "text/plain", ""}

\* a request without a body, or one with a body that holds a review, an
\* object of another kind or bytes that do not decode; reading the body can
\* fail
HttpRequests ==
    {[NoExchange EXCEPT !.contentType = ct] : ct \in ContentTypes}
    \cup {[NoExchange EXCEPT !.hasBody = TRUE, !.contentType = ct,
                             !.readable = rd, !.content = data] :
            ct \in ContentTypes, rd \in BOOLEAN, data \in ReviewData}

InitHttp == InitMain

\* the handler from its entry to the call of ValidateBytes: the switch, then
\* io.ReadAll.  http.Error writes the status; a status once written stays.
HttpServe(req) ==
    /\ http.pc = "idle"
    /\ bytesPc[1] = "idle"
    /\ LET wrongType == IF req.contentType # "application/json" THEN 400 ELSE 0
       IN  IF ~req.hasBody
           THEN /\ http' = [req EXCEPT !.pc = "answered", !.status = 400]
                /\ UNCHANGED bytesPc
           ELSE IF ~req.readable
           THEN /\ http' = [req EXCEPT !.pc = "answered", !.status = 400]
                /\ UNCHANGED bytesPc
           ELSE /\ http' = [req EXCEPT !.pc = "calling", !.status = wrongType,
                                       !.passed = TRUE]
                /\ bytesPc' = [bytesPc EXCEPT ![1] = "waiting"]
    /\ UNCHANGED <<config, validateVars, previous, lock, rwVars, queryVars,
                   seen>>

\* validator.ValidateBytes(content) gets the lock and runs
HttpValidate(development) ==
    /\ http.pc = "calling"
    /\ BytesEnter(1, http.content, development)

\* ValidateBytes returns its review or panics
HttpReturns ==
    /\ http.pc = "calling"
    /\ BytesReturn(1)

\* the review is marshalled and written; a panic of ValidateBytes unwinds
\* the handler and nothing more is written
HttpRespond ==
    /\ http.pc = "calling"
    /\ bytesPc[1] = "idle"
    /\ http' = IF ~previous.returned
               THEN [http EXCEPT !.pc = "aborted"]
               ELSE [http EXCEPT !.pc = "answered",
                                 !.status = IF @ = 0 THEN 200 ELSE @]
    /\ UNCHANGED <<config, validateVars, previous, bytesVars, rwVars,
                   queryVars, seen>>

\* the exchange is over
HttpClose ==
    /\ http.pc \in {"answered", "aborted"}
    /\ http' = NoExchange
    /\ UNCHANGED <<config, validateVars, previous, bytesVars, rwVars,
                   queryVars, seen>>

NextHttp ==
    \/ \E req \in HttpRequests : HttpServe(req)
    \/ \E development \in BOOLEAN : HttpValidate(development)
    \/ NextScope
    \/ \E outcome \in ListOutcomes : ListReturn(outcome)
    \/ HttpReturns
    \/ HttpRespond
    \/ HttpClose

SpecHttp == InitHttp /\ [][NextHttp]_vars

\* the request fails one of the two checks of the gate
FailsGate == ~http.hasBody \/ http.contentType # "application/json"

\* C29: HTTP request gate.  A request with no body or with a Content-Type
\* other than application/json is answered with status 400 and its body is
\* never passed to ValidateBytes: ValidateBytes is called only for requests
\* that passed both checks.
C29_RequestGate ==
    (http.pc # "idle" /\ FailsGate)
        => /\ ~http.passed
           /\ http.pc = "answered"
           /\ http.status = 400

====
